---- MODULE Spec2Model ----
(***************************************************************************)
(* A model of src/model_book.py: the ModelBook catalog of named models and *)
(* its reduce() operation.                                                 *)
(*                                                                         *)
(* Python objects live in a heap.  Model instances are in objs, dict       *)
(* objects in dicts, ModelBook instances in books; all three are indexed   *)
(* by object identity (an integer drawn from next_id).  A ModelBook        *)
(* attribute holds the identity of a dict, a dict maps string keys to the  *)
(* identity of a model instance, so aliasing and copying are visible.      *)
(***************************************************************************)
EXTENDS Integers, Sequences, FiniteSets, TLC

VARIABLES
    objs,        \* identity -> [cls, args, partial_wakes]: the model instances
    dicts,       \* identity -> (key -> identity of a model instance)
    books,       \* identity -> (attribute name -> identity of a dict)
    next_id,     \* the next fresh object identity
    wind_farm,   \* wind_farm.turbines: a sequence of turbine info records
    flm_partial, \* the catalog keys whose flm wake model is created with partial_wakes = True
    origin,      \* ModelBook identity -> the ModelBook it was reduced from (0: constructed)
    nred,        \* number of reduce calls made
    nmut,        \* number of mutations made by the caller
    last         \* the most recent operation and its outcome

vars == <<objs, dicts, books, next_id, wind_farm, flm_partial, origin, nred, nmut, last>>

----------------------------------------------------------------------------
(* Bounds of the exploration *)

MaxTurbines == 2
MaxReduce == 2
MaxMutations == 1

----------------------------------------------------------------------------
(* Python values *)

None == "None"

NoErr == [type |-> "none", args |-> <<>>]

\* KeyError raised by a failed dict lookup d[key]: its args are (key,)
KeyError(key) == [type |-> "KeyError", args |-> <<key>>]

\* str(n) for n >= 0
Digit(d) ==
    CASE d = 0 -> "0" [] d = 1 -> "1" [] d = 2 -> "2" [] d = 3 -> "3" [] d = 4 -> "4"
      [] d = 5 -> "5" [] d = 6 -> "6" [] d = 7 -> "7" [] d = 8 -> "8" [] d = 9 -> "9"

RECURSIVE Str(_)
Str(n) == IF n < 10 THEN Digit(n) ELSE Str(n \div 10) \o Digit(n % 10)

\* range(a, b) as a sequence
Range(a, b) == [i \in 1..(b - a) |-> a + i - 1]

EmptyDict == [k \in {} |-> 0]

----------------------------------------------------------------------------
(* Heap primitives.  H is a record [objs, dicts, books, next].             *)
(*                                                                         *)
(* A loop of the source is a recursive operator that threads the heap.     *)
(* The heap after one iteration is bound with                              *)
(*     CHOOSE r \in {Rest(h) : h \in {Step(H)}} : TRUE                      *)
(* which is Rest(Step(H)) with Step(H) evaluated once.                     *)

\* flm.Cls(args): a new model instance
NewObj(H, cls, args, pw) ==
    [H EXCEPT !.objs = (H.next :> [cls |-> cls, args |-> args, partial_wakes |-> pw]) @@ @,
              !.next = @ + 1]

\* {}: a new empty dict
NewDict(H) == [H EXCEPT !.dicts = (H.next :> EmptyDict) @@ @, !.next = @ + 1]

\* d[key] = o: inserts, or overwrites the entry already under key
SetItem(H, d, key, o) ==
    [H EXCEPT !.dicts[d] = [k \in (DOMAIN @) \cup {key} |-> IF k = key THEN o ELSE @[k]]]

\* del d[key]
DelItem(H, d, key) ==
    [H EXCEPT !.dicts[d] = [k \in (DOMAIN @) \ {key} |-> @[k]]]

\* book.attr = d
SetAttr(H, b, attr, d) ==
    [H EXCEPT !.books[b] = [a \in (DOMAIN @) \cup {attr} |-> IF a = attr THEN d ELSE @[a]]]

\* Faulty variant of DeepCopy: the reference itself, no copy
DeepCopyAlias(H, m) == [H |-> H, o |-> m]

\* deepcopy(m): [H, o], o being a new instance with the attributes of m
DeepCopy(H, m) ==
    [H |-> [H EXCEPT !.objs = (H.next :> H.objs[m]) @@ @, !.next = @ + 1], o |-> H.next]

----------------------------------------------------------------------------
(* The entries ModelBook.__init__ registers, in source order.  An entry is  *)
(* [key, cls, args]: self.<mapping>[key] = flm.<cls>(<args>).               *)

Entry(key, cls, args) == [key |-> key, cls |-> cls, args |-> args]

\* Faulty variant of RingKey: 'ring' + str(n)
RingKeyOfN(n) == "ring" \o Str(n)

\* key of the ring model built by flm.RMRing(n=n): 'ring' + str(n + 1)
RingKey(n) == "ring" \o Str(n + 1)

\* key of the grid model built by flm.RMGrid(n=n)
GridKey(n) == "grid" \o Str(n * n)

RingEntries ==
    LET ns == Range(3, 13)
    IN  [i \in DOMAIN ns |-> Entry(RingKey(ns[i]), "RMRing", "n=" \o Str(ns[i]))]

GridEntries ==
    LET ns == Range(2, 11)
    IN  [i \in DOMAIN ns |-> Entry(GridKey(ns[i]), "RMGrid", "n=" \o Str(ns[i]))]

RotorEntries ==
    << Entry("centre", "RMCentre", ""), Entry("stencil", "RMStencil", "") >>
    \o RingEntries
    \o << Entry("two_rings9", "RMRings", "m=[4,4],angle0_deg=[45,0]"),
          Entry("two_rings13", "RMRings", "m=[4,8]"),
          Entry("three_rings19", "RMRings", "m=[4,6,8]"),
          Entry("four_rings29", "RMRings", "m=[4,6,8,10]") >>
    \o GridEntries
    \o << Entry("grid400", "RMGrid", "n=" \o Str(20)),
          Entry("grid10000", "RMGrid", "n=" \o Str(100)) >>

FixedTurbineEntries ==
    << Entry("yaw2yawm", "Yaw2Yawm", "ambient_wd=True,ambient_yaw=False"),
       Entry("yawm2yaw", "Yawm2Yaw", "ambient_wd=True,ambient_yaw=False"),
       Entry("zeroOutsideFarm", "ZeroOutsideFarm", "") >>

CurveEntry(ct_power_curve_file) ==
    Entry("ct_P_curves", "Ws2PCt", "ct_power_curve_file=" \o ct_power_curve_file)

\* Faulty variant of TurbineEntries: the curve model is registered without the test
TurbineEntriesAlways(ct_power_curve_file) ==
    << CurveEntry(ct_power_curve_file) >> \o FixedTurbineEntries

\* The turbine models: ct_P_curves only if ct_power_curve_file is not None
TurbineEntries(ct_power_curve_file) ==
    IF ct_power_curve_file # None
    THEN << CurveEntry(ct_power_curve_file) >> \o FixedTurbineEntries
    ELSE FixedTurbineEntries

OrderEntries ==
    << Entry("farm", "FarmTurbineOrder", ""),
       Entry("amb_wind", "WindTurbineOrder", "use_amb=True"),
       Entry("wake_wind", "WindTurbineOrder", "use_amb=False"),
       Entry("wake_frame", "WakeFrameTurbineOrder", "") >>

ControllerEntries == << Entry("default", "WTCDefault", "") >>

WakeEntries ==
    << Entry("Jensen", "WMJensen", ""),
       Entry("Jensen007", "WMJensen", "k=0.07"),
       Entry("Frandsen", "WMFrandsen", ""),
       Entry("Bastankhah", "WMBastankhah", ""),
       Entry("Bastankhah_smear3", "WMBastankhah", "delta_wd=3."),
       Entry("PorteAgel", "WMPorteAgel", ""),
       Entry("Botasso", "WMBotasso", ""),
       Entry("Ishihara_wind", "WMIshiharaWind", ""),
       Entry("Ishihara_ti", "WMIshiharaTI", ""),
       Entry("IEC_TI_2005", "WMIECTI2005", ""),
       Entry("IEC_TI_2019", "WMIECTI2019", ""),
       Entry("CrespoHernandez", "WMTICrespoHernandez", "") >>

SuperpEntries ==
    << Entry("ti_linear", "TISuperpCollection", "ti_superp='linear'"),
       Entry("ti_quadratic", "TISuperpCollection", "ti_superp='quadratic'"),
       Entry("ti_max", "TISuperpCollection", "ti_superp='max'"),
       Entry("wind_linear", "WindSuperpLinear", "use_ambws=False,limit_wake=False"),
       Entry("wind_linear_amb", "WindSuperpLinear", "use_ambws=True,limit_wake=False"),
       Entry("wind_linear_lim", "WindSuperpLinear", "use_ambws=False,limit_wake=True"),
       Entry("wind_linear_amb_lim", "WindSuperpLinear", "use_ambws=True,limit_wake=True"),
       Entry("wind_quadratic", "WindSuperpQuadratic", "use_ambws=False,limit_wake=False"),
       Entry("wind_quadratic_amb", "WindSuperpQuadratic", "use_ambws=True,limit_wake=False"),
       Entry("wind_quadratic_lim", "WindSuperpQuadratic", "use_ambws=False,limit_wake=True"),
       Entry("wind_quadratic_amb_lim", "WindSuperpQuadratic", "use_ambws=True,limit_wake=True"),
       Entry("wind_product", "WindSuperpProduct", "") >>

FrameEntries ==
    << Entry("amb_wind", "AmbientWindFrame", ""),
       Entry("rotor_wind", "RotorWindFrame", ""),
       Entry("yaw_deflection", "YawDeflectionFrame", ""),
       Entry("streamlines", "StreamlineFrame", "") >>

FarmCalcEntries == << Entry("cables_mst", "CablesMST", "") >>

\* The vertical profile entries hold class names: str objects that exist once,
\* with the flm classes, before any ModelBook is built.
ProfileEntries ==
    << Entry("ws_abl_log_neutral", "str", "ABLLogNeutralWsProfile"),
       Entry("ws_abl_log_stable", "str", "ABLLogStableWsProfile"),
       Entry("ws_abl_log_unstable", "str", "ABLLogUnstableWsProfile"),
       Entry("ws_abl_log", "str", "ABLLogWsProfile") >>

ClassNameIds == DOMAIN ProfileEntries

\* The heap before the first ModelBook is built
ImportedHeap ==
    [objs  |-> [i \in ClassNameIds |->
                  [cls |-> "str", args |-> ProfileEntries[i].args, partial_wakes |-> FALSE]],
     dicts |-> EmptyDict,
     books |-> EmptyDict,
     next  |-> Len(ProfileEntries) + 1]

Keys(entries) == {entries[i].key : i \in DOMAIN entries}

----------------------------------------------------------------------------
(* ModelBook.__init__ *)

\* The partial_wakes attribute a new flm wake model carries: set by flm, per
\* model; instances of the other classes carry none (FALSE here).
FlmPartialWakes(e) == e.key \in flm_partial

\* self.<mapping>[key] = flm.<cls>(<args>)
Register(H, d, e, pw) == SetItem(NewObj(H, e.cls, e.args, pw), d, e.key, H.next)

RECURSIVE RegisterAll(_, _, _, _)
RegisterAll(H, d, entries, i) ==
    IF i > Len(entries) THEN H
    ELSE CHOOSE r \in {RegisterAll(h, d, entries, i + 1) :
                         h \in {Register(H, d, entries[i], FALSE)}} : TRUE

\* self.<attr> = {} followed by the registrations of entries
DefineMapping(H, self, attr, entries) ==
    RegisterAll(SetAttr(NewDict(H), self, attr, H.next), H.next, entries, 1)

RECURSIVE RegisterWakeModels(_, _, _)
RegisterWakeModels(H, d, i) ==
    IF i > Len(WakeEntries) THEN H
    ELSE CHOOSE r \in {RegisterWakeModels(h, d, i + 1) :
                         h \in {Register(H, d, WakeEntries[i], FlmPartialWakes(WakeEntries[i]))}} : TRUE

\* The body of "for mname in wmodels" for one mname
AddNoPartial(H, d, mname) ==
    LET m == H.dicts[d][mname]
    IN  IF H.objs[m].partial_wakes
        THEN LET mname2 == mname \o "_rotor"
             IN  CHOOSE r \in {[h EXCEPT !.objs[h.dicts[d][mname2]].partial_wakes = FALSE] :
                                h \in {SetItem(c.H, d, mname2, c.o) : c \in {DeepCopy(H, m)}}} : TRUE
        ELSE H

\* for mname in wmodels, wmodels being the keys listed before the loop
RECURSIVE AddNoPartialModels(_, _, _, _)
AddNoPartialModels(H, d, wmodels, i) ==
    IF i > Len(wmodels) THEN H
    ELSE CHOOSE r \in {AddNoPartialModels(h, d, wmodels, i + 1) :
                         h \in {AddNoPartial(H, d, wmodels[i])}} : TRUE

DefineWakeModels(H, self) ==
    LET d  == H.next
        wmodels == [i \in DOMAIN WakeEntries |-> WakeEntries[i].key]
    IN  CHOOSE r \in {AddNoPartialModels(h, d, wmodels, 1) :
                        h \in {RegisterWakeModels(SetAttr(NewDict(H), self, "wake_models", d), d, 1)}} : TRUE

\* self.vert_profiles = {} and its four entries, each an existing class name
DefineProfiles(H, self) ==
    LET d  == H.next
        H1 == SetAttr(NewDict(H), self, "vert_profiles", d)
    IN  [H1 EXCEPT !.dicts[d] = [k \in Keys(ProfileEntries) |->
            CHOOSE i \in ClassNameIds : ProfileEntries[i].key = k]]

\* The j-th block of __init__, in source order
InitBlock(H, self, ct_power_curve_file, j) ==
    CASE j = 1  -> DefineMapping(H, self, "amb_states_models", << >>)
      [] j = 2  -> DefineMapping(H, self, "rotor_models", RotorEntries)
      [] j = 3  -> DefineMapping(H, self, "turbine_models", TurbineEntries(ct_power_curve_file))
      [] j = 4  -> DefineMapping(H, self, "turbine_orders", OrderEntries)
      [] j = 5  -> DefineMapping(H, self, "controllers", ControllerEntries)
      [] j = 6  -> DefineWakeModels(H, self)
      [] j = 7  -> DefineMapping(H, self, "wake_superp", SuperpEntries)
      [] j = 8  -> DefineMapping(H, self, "wake_frames", FrameEntries)
      [] j = 9  -> DefineMapping(H, self, "farm_calc_data_models", FarmCalcEntries)
      [] j = 10 -> DefineProfiles(H, self)

RECURSIVE InitBlocks(_, _, _, _)
InitBlocks(H, self, ct_power_curve_file, j) ==
    IF j > 10 THEN H
    ELSE CHOOSE r \in {InitBlocks(h, self, ct_power_curve_file, j + 1) :
                         h \in {InitBlock(H, self, ct_power_curve_file, j)}} : TRUE

\* ModelBook(ct_power_curve_file): the new instance has identity H.next
ModelBook(H, ct_power_curve_file) ==
    CHOOSE r \in {InitBlocks(h, H.next, ct_power_curve_file, 1) :
                    h \in {[H EXCEPT !.books = (H.next :> EmptyDict) @@ @, !.next = @ + 1]}} : TRUE

----------------------------------------------------------------------------
(* ModelBook.reduce *)

mtyps == << "rotor_models", "turbine_models", "controllers", "wake_models", "wake_frames" >>

ttyps == << "rotor_model", "turbine_models", "controller", "wake_models", "wake_frame" >>

\* Faulty variant of TurbineKeys: only the first element of a list is looked up
TurbineKeysFirstOnly(t, ttyp) ==
    IF ttyp = "wake_models" \/ ttyp = "turbine_models"
    THEN IF Len(t[ttyp]) = 0 THEN << >> ELSE << t[ttyp][1] >>
    ELSE << t[ttyp] >>

\* The keys one turbine contributes for ttyp, in the order they are looked up:
\* the elements of t.info[ttyp] for the two list-valued kinds, t.info[ttyp] otherwise
TurbineKeys(t, ttyp) ==
    IF ttyp = "wake_models" \/ ttyp = "turbine_models"
    THEN t[ttyp]
    ELSE << t[ttyp] >>

\* Faulty variant of LookupCopy: a key absent from mdict0 is skipped
LookupCopySkip(H, mdict, mdict0, wm) ==
    IF wm \in DOMAIN H.dicts[mdict] \/ wm \notin DOMAIN H.dicts[mdict0]
    THEN [H |-> H, err |-> NoErr]
    ELSE [H |-> SetItem(H, mdict, wm, H.dicts[mdict0][wm]), err |-> NoErr]

\* Faulty variant of LookupCopy: mdict[wm] = mdict0.pop(wm)
LookupCopyPop(H, mdict, mdict0, wm) ==
    IF wm \in DOMAIN H.dicts[mdict] THEN [H |-> H, err |-> NoErr]
    ELSE IF wm \notin DOMAIN H.dicts[mdict0] THEN [H |-> H, err |-> KeyError(wm)]
    ELSE [H |-> DelItem(SetItem(H, mdict, wm, H.dicts[mdict0][wm]), mdict0, wm),
          err |-> NoErr]

\* if not wm in mdict: mdict[wm] = mdict0[wm]
\* The result is [H, err]: the lookup mdict0[wm] raises KeyError(wm) when wm is absent
LookupCopy(H, mdict, mdict0, wm) ==
    IF wm \in DOMAIN H.dicts[mdict] THEN [H |-> H, err |-> NoErr]
    ELSE IF wm \notin DOMAIN H.dicts[mdict0] THEN [H |-> H, err |-> KeyError(wm)]
    ELSE [H |-> SetItem(H, mdict, wm, H.dicts[mdict0][wm]), err |-> NoErr]

\* The lookups of one turbine, stopping at the first that raises
RECURSIVE KeyLoop(_, _, _, _, _)
KeyLoop(R, mdict, mdict0, wms, i) ==
    IF i > Len(wms) \/ R.err # NoErr THEN R
    ELSE CHOOSE r \in {KeyLoop(q, mdict, mdict0, wms, i + 1) :
                         q \in {LookupCopy(R.H, mdict, mdict0, wms[i])}} : TRUE

\* Faulty variant of TurbineStep: mdict = {} inside the loop over the turbines
TurbineStepReset(R, mdict, mdict0, ttyp, t) ==
    KeyLoop([R EXCEPT !.H.dicts[mdict] = EmptyDict], mdict, mdict0, TurbineKeys(t, ttyp), 1)

\* The body of "for t in wind_farm.turbines" for one turbine t
TurbineStep(R, mdict, mdict0, ttyp, t) ==
    KeyLoop(R, mdict, mdict0, TurbineKeys(t, ttyp), 1)

RECURSIVE TurbineLoop(_, _, _, _, _, _)
TurbineLoop(R, mdict, mdict0, ttyp, turbines, i) ==
    IF i > Len(turbines) \/ R.err # NoErr THEN R
    ELSE CHOOSE r \in {TurbineLoop(q, mdict, mdict0, ttyp, turbines, i + 1) :
                         q \in {TurbineStep(R, mdict, mdict0, ttyp, turbines[i])}} : TRUE

\* The body of "for mi, mtyp in enumerate(mtyps)" for one mi
KindStep(R, self, mbook, turbines, mi) ==
    LET mdict0 == R.H.books[self][mtyps[mi]]
        mdict  == R.H.next
    IN  CHOOSE r \in {IF q.err # NoErr THEN q
                       ELSE [q EXCEPT !.H = SetAttr(q.H, mbook, mtyps[mi], mdict)] :
                       q \in {TurbineLoop(p, mdict, mdict0, ttyps[mi], turbines, 1) :
                                 p \in {[R EXCEPT !.H = NewDict(R.H)]}}} : TRUE

RECURSIVE KindLoop(_, _, _, _, _)
KindLoop(R, self, mbook, turbines, mi) ==
    IF mi > Len(mtyps) \/ R.err # NoErr THEN R
    ELSE CHOOSE r \in {KindLoop(q, self, mbook, turbines, mi + 1) :
                         q \in {KindStep(R, self, mbook, turbines, mi)}} : TRUE

\* Faulty variant of ShareUnfiltered: turbine_orders is not assigned
ShareSuperpOnly(H, mbook, self) ==
    SetAttr(H, mbook, "wake_superp", H.books[self]["wake_superp"])

\* Faulty variant of ShareUnfiltered: dict(self.wake_superp), dict(self.turbine_orders)
ShareByCopy(H, mbook, self) ==
    LET d1 == H.next
        d2 == H.next + 1
        H1 == [NewDict(NewDict(H)) EXCEPT
                  !.dicts[d1] = H.dicts[H.books[self]["wake_superp"]],
                  !.dicts[d2] = H.dicts[H.books[self]["turbine_orders"]]]
    IN  SetAttr(SetAttr(H1, mbook, "wake_superp", d1), mbook, "turbine_orders", d2)

\* mbook.wake_superp = self.wake_superp; mbook.turbine_orders = self.turbine_orders
ShareUnfiltered(H, mbook, self) ==
    SetAttr(SetAttr(H, mbook, "wake_superp", H.books[self]["wake_superp"]),
            mbook, "turbine_orders", H.books[self]["turbine_orders"])

\* What is left of the heap for the caller: the ModelBooks in roots, the dicts
\* they hold and the instances in those; the rest is unreachable.
Collect(H, roots) ==
    LET liveD == UNION {{H.books[b][a] : a \in DOMAIN H.books[b]} : b \in roots}
        liveO == ClassNameIds \cup UNION {{H.dicts[d][k] : k \in DOMAIN H.dicts[d]} : d \in liveD}
    IN  [objs  |-> [o \in liveO |-> H.objs[o]],
         dicts |-> [d \in liveD |-> H.dicts[d]],
         books |-> [b \in roots |-> H.books[b]],
         next  |-> H.next]

\* self.reduce(wind_farm) with wind_farm.turbines = turbines: [H, ret, err], where
\* ret is the identity of the returned ModelBook, or 0 when err was raised
reduce(H, self, turbines) ==
    LET mbook == H.next
    IN  CHOOSE r \in
          {IF q.err = NoErr
           THEN [H |-> Collect(q.H, (DOMAIN H.books) \cup {mbook}), ret |-> mbook, err |-> NoErr]
           ELSE [H |-> Collect(q.H, DOMAIN H.books), ret |-> 0, err |-> q.err] :
           q \in {KindLoop([H |-> h1, err |-> NoErr], self, mbook, turbines, 1) :
                     h1 \in {ShareUnfiltered(h0, mbook, self) : h0 \in {ModelBook(H, None)}}}} : TRUE

----------------------------------------------------------------------------
(* Inputs *)

\* t.info of the turbines a wind farm is made of
TurbineChoices ==
    { [rotor_model |-> "centre", turbine_models |-> << >>,
       controller |-> "default", wake_models |-> << "Jensen" >>,
       wake_frame |-> "amb_wind"],
      [rotor_model |-> "grid400", turbine_models |-> << "ct_P_curves", "yawm2yaw" >>,
       controller |-> "default", wake_models |-> << "Jensen_rotor", "Jensen", "Jensen_rotor" >>,
       wake_frame |-> "yaw_deflection"] }

Farms == UNION {[1..n -> TurbineChoices] : n \in 0..MaxTurbines}

CurveFiles == {None, "curves.csv"}

FlagChoices == {{}, {"Jensen"}, Keys(WakeEntries)}

\* The mappings and keys the caller mutates
MutKinds == {"wake_models", "wake_superp"}

NewKeys == {"extra"}

DelKeys == {"Jensen", "wind_product"}

FlagKeys == {"Jensen", "Jensen_rotor"}

----------------------------------------------------------------------------
(* The state machine *)

Heap == [objs |-> objs, dicts |-> dicts, books |-> books, next |-> next_id]

Op(op, self, kind, key, arg, ret, err) ==
    [op |-> op, self |-> self, kind |-> kind, key |-> key, arg |-> arg, ret |-> ret, err |-> err]

\* The state after mbook = ModelBook(ct_power_curve_file)
Init ==
    /\ flm_partial \in FlagChoices
    /\ wind_farm \in Farms
    /\ \E ct \in CurveFiles, b \in {ImportedHeap.next} :
          \E H \in {ModelBook(ImportedHeap, ct)} :
              /\ objs = H.objs
              /\ dicts = H.dicts
              /\ books = H.books
              /\ next_id = H.next
              /\ origin = (b :> 0)
              /\ last = Op("init", b, "", "", ct, b, NoErr)
    /\ nred = 0
    /\ nmut = 0

\* self.reduce(wind_farm)
Reduce(self) ==
    /\ nred < MaxReduce
    /\ \E R \in {reduce(Heap, self, wind_farm)} :
           /\ objs' = R.H.objs
           /\ dicts' = R.H.dicts
           /\ books' = R.H.books
           /\ next_id' = R.H.next
           /\ origin' = IF R.ret # 0 THEN (R.ret :> self) @@ origin ELSE origin
           /\ last' = Op("reduce", self, "", "", "", R.ret, R.err)
    /\ nred' = nred + 1
    /\ UNCHANGED <<wind_farm, flm_partial, nmut>>

\* book.wake_models[key].partial_wakes = v, by the caller
SetPartialWakes(b, key, v) ==
    /\ nmut < MaxMutations
    /\ key \in DOMAIN dicts[books[b]["wake_models"]]
    /\ objs' = [objs EXCEPT ![dicts[books[b]["wake_models"]][key]].partial_wakes = v]
    /\ last' = Op("setflag", 0, "", "", "", 0, NoErr)
    /\ nmut' = nmut + 1
    /\ UNCHANGED <<dicts, books, next_id, wind_farm, flm_partial, origin, nred>>

\* book.<kind>[key] = a new model instance, by the caller
AddItem(b, kind, key) ==
    /\ nmut < MaxMutations
    /\ \E G \in {Collect(H, DOMAIN books) :
                    H \in {Register(Heap, books[b][kind], Entry(key, "UserModel", ""), FALSE)}} :
           /\ objs' = G.objs
           /\ dicts' = G.dicts
           /\ next_id' = G.next
    /\ last' = Op("setitem", 0, "", "", "", 0, NoErr)
    /\ nmut' = nmut + 1
    /\ UNCHANGED <<books, wind_farm, flm_partial, origin, nred>>

\* del book.<kind>[key], by the caller
RemoveItem(b, kind, key) ==
    /\ nmut < MaxMutations
    /\ key \in DOMAIN dicts[books[b][kind]]
    /\ \E G \in {Collect(H, DOMAIN books) : H \in {DelItem(Heap, books[b][kind], key)}} :
           /\ objs' = G.objs
           /\ dicts' = G.dicts
    /\ last' = Op("delitem", 0, "", "", "", 0, NoErr)
    /\ nmut' = nmut + 1
    /\ UNCHANGED <<books, next_id, wind_farm, flm_partial, origin, nred>>

Next ==
    \/ \E self \in DOMAIN books : Reduce(self)
    \/ \E b \in DOMAIN books, key \in FlagKeys, v \in BOOLEAN : SetPartialWakes(b, key, v)
    \/ \E b \in DOMAIN books, kind \in MutKinds, key \in NewKeys : AddItem(b, kind, key)
    \/ \E b \in DOMAIN books, kind \in MutKinds, key \in DelKeys : RemoveItem(b, kind, key)

Spec == Init /\ [][Next]_vars

----------------------------------------------------------------------------
(* Vocabulary of the properties *)

Elems(seq) == {seq[i] : i \in DOMAIN seq}

\* The mapping object a catalog holds for a kind, in a given heap
MappingIn(ds, bs, b, kind) == ds[bs[b][kind]]

Mapping(b, kind) == MappingIn(dicts, books, b, kind)

\* The keys turbine number ti of the farm references for kind number i, in order
RefSeq(i, ti) ==
    IF i = 2 \/ i = 4 THEN wind_farm[ti][ttyps[i]] ELSE << wind_farm[ti][ttyps[i]] >>

\* The keys some turbine of the farm references for kind number i
Referenced(i) == UNION {Elems(RefSeq(i, ti)) : ti \in DOMAIN wind_farm}

\* Every key the farm references is registered in catalog b
AllRegistered(b) ==
    \A i \in DOMAIN mtyps : Referenced(i) \subseteq DOMAIN Mapping(b, mtyps[i])

\* The places (kind, turbine, position) where the farm references a key absent from b
MissingPlaces(b) ==
    UNION {UNION {{<<i, ti, j>> : j \in {n \in DOMAIN RefSeq(i, ti) :
                                            RefSeq(i, ti)[n] \notin DOMAIN Mapping(b, mtyps[i])}} :
                  ti \in DOMAIN wind_farm} :
           i \in DOMAIN mtyps}

Before(p, q) ==
    \/ p[1] < q[1]
    \/ p[1] = q[1] /\ p[2] < q[2]
    \/ p[1] = q[1] /\ p[2] = q[2] /\ p[3] <= q[3]

\* The first such place in the order of the loops of reduce
FirstMissing(b) == CHOOSE p \in MissingPlaces(b) : \A q \in MissingPlaces(b) : Before(p, q)

IsReduceStep == nred' = nred + 1

IsMutation == nmut' = nmut + 1

----------------------------------------------------------------------------
(* C1 *)

\* C1: when every key the turbines reference is registered in the source, reduce
\* returns a catalog whose five filtered mappings hold exactly the referenced keys
\* (one entry per key, however many turbines name it), each with the source's entry.
C1_ReduceExactlyReferenced ==
    (last.op = "reduce" /\ AllRegistered(last.self)) =>
        /\ last.err = NoErr
        /\ last.ret \in DOMAIN books
        /\ \A i \in DOMAIN mtyps :
              Mapping(last.ret, mtyps[i]) =
                  [K \in Referenced(i) |-> Mapping(last.self, mtyps[i])[K]]

\* Two different turbines that both name "Jensen" have been reduced to one entry
C1_Witness ==
    /\ last.op = "reduce"
    /\ last.ret # 0
    /\ Len(wind_farm) = 2
    /\ wind_farm[1] # wind_farm[2]
    /\ DOMAIN Mapping(last.ret, "rotor_models") = {"centre", "grid400"}
    /\ DOMAIN Mapping(last.ret, "wake_models") = {"Jensen", "Jensen_rotor"}
    /\ Mapping(last.ret, "wake_models")["Jensen"] = Mapping(last.self, "wake_models")["Jensen"]

----------------------------------------------------------------------------
(* C2 *)

\* C2 as stated: a reference to an unregistered key makes reduce fail with an error that
\* identifies the missing key and the mapping kind, and no catalog is returned.
C2_ErrorNamesKeyAndKind ==
    (last.op = "reduce" /\ ~AllRegistered(last.self)) =>
        LET p == FirstMissing(last.self)
        IN  /\ last.err # NoErr
            /\ RefSeq(p[1], p[2])[p[3]] \in Elems(last.err.args)
            /\ \/ mtyps[p[1]] \in Elems(last.err.args)
               \/ ttyps[p[1]] \in Elems(last.err.args)
            /\ last.ret = 0

\* C2 amended: a reference to an unregistered key makes reduce raise a KeyError that
\* carries the missing key alone (the first one met in kind, turbine and list order);
\* the reference is never skipped and the call leaves no new catalog behind.
C2_KeyErrorNamesKey ==
    [][(IsReduceStep /\ ~AllRegistered(last'.self)) =>
          LET p == FirstMissing(last'.self)
          IN  /\ last'.err = KeyError(RefSeq(p[1], p[2])[p[3]])
              /\ last'.ret = 0
              /\ books' = books
              /\ dicts' = dicts
              /\ objs' = objs]_vars

\* A reduce that failed on the curve model key of a catalog built without curve file
C2_Witness ==
    /\ last.op = "reduce"
    /\ last.err = KeyError("ct_P_curves")
    /\ last.ret = 0
    /\ DOMAIN books = {last.self}

----------------------------------------------------------------------------
(* C3 *)

\* C3: the catalog reduce returns has the wake_superp and turbine_orders contents of
\* the source, key for key and instance for instance, whatever the turbines; for a
\* farm without turbines reduce returns, and the five filtered mappings are empty.
C3_UnfilteredPreserved ==
    (last.op = "reduce") =>
        /\ last.ret # 0 =>
              /\ Mapping(last.ret, "wake_superp") = Mapping(last.self, "wake_superp")
              /\ Mapping(last.ret, "turbine_orders") = Mapping(last.self, "turbine_orders")
        /\ wind_farm = << >> =>
              /\ last.ret # 0
              /\ \A i \in DOMAIN mtyps : DOMAIN Mapping(last.ret, mtyps[i]) = {}

C3_Witness ==
    /\ last.op = "reduce"
    /\ wind_farm = << >>
    /\ last.ret # 0
    /\ DOMAIN Mapping(last.ret, "wake_superp") = Keys(SuperpEntries)
    /\ DOMAIN Mapping(last.ret, "turbine_orders") = Keys(OrderEntries)
    /\ DOMAIN Mapping(last.ret, "wake_models") = {}

----------------------------------------------------------------------------
(* C4 *)

\* C4: a call of reduce, returning or raising, leaves the source catalog as it was:
\* the same mapping objects with the same keys and instances, and every instance in
\* them with the same attributes (partial_wakes among them).
C4_SourceUnchanged ==
    [][IsReduceStep =>
          LET s == last'.self
          IN  /\ s \in DOMAIN books'
              /\ books'[s] = books[s]
              /\ \A a \in DOMAIN books[s] :
                    /\ books[s][a] \in DOMAIN dicts'
                    /\ dicts'[books[s][a]] = dicts[books[s][a]]
                    /\ \A K \in DOMAIN dicts[books[s][a]] :
                          /\ dicts[books[s][a]][K] \in DOMAIN objs'
                          /\ objs'[dicts[books[s][a]][K]] = objs[dicts[books[s][a]][K]]]_vars

\* A reduce over two turbines has returned and the source still has all its entries
C4_Witness ==
    /\ last.op = "reduce"
    /\ last.ret # 0
    /\ Len(wind_farm) = 2
    /\ DOMAIN Mapping(last.self, "rotor_models") = Keys(RotorEntries)
    /\ Keys(WakeEntries) \subseteq DOMAIN Mapping(last.self, "wake_models")
    /\ DOMAIN Mapping(last.ret, "rotor_models") # DOMAIN Mapping(last.self, "rotor_models")

----------------------------------------------------------------------------
(* C5 *)

Injective(f) == \A x, y \in DOMAIN f : f[x] = f[y] => x = y

\* The wake models of a catalog as built: for the keys flagged at registration and
\* only for them a "_rotor" key, held by another instance of the same configuration
\* with the flag off, the original keeping the flag on
RotorVariantsDerived(b) ==
    LET wm == Mapping(b, "wake_models")
    IN  /\ DOMAIN wm = Keys(WakeEntries) \cup {K \o "_rotor" : K \in flm_partial}
        /\ \A K \in Keys(WakeEntries) :
              /\ objs[wm[K]].partial_wakes = (K \in flm_partial)
              /\ K \in flm_partial =>
                    /\ wm[K \o "_rotor"] # wm[K]
                    /\ objs[wm[K \o "_rotor"]].partial_wakes = FALSE
                    /\ objs[wm[K \o "_rotor"]].cls = objs[wm[K]].cls
                    /\ objs[wm[K \o "_rotor"]].args = objs[wm[K]].args
              /\ K \notin flm_partial => (K \o "_rotor") \notin DOMAIN wm
        /\ Injective(wm)

\* A step that sets a partial_wakes flag changes the instance under K or the one
\* under K_rotor of a catalog, never both
FlagsIndependent ==
    last'.op = "setflag" =>
        \A b \in DOMAIN books : \A K \in Keys(WakeEntries) :
            LET wm == Mapping(b, "wake_models")
            IN  (K \in DOMAIN wm /\ (K \o "_rotor") \in DOMAIN wm) =>
                    \/ objs'[wm[K]] = objs[wm[K]]
                    \/ objs'[wm[K \o "_rotor"]] = objs[wm[K \o "_rotor"]]

\* C5: construction derives K_rotor for exactly the wake models flagged at registration,
\* as an independent copy with the flag off, the original's flag staying on; setting
\* the flag of one of the two afterwards never changes the flag of the other.
C5_RotorVariants ==
    /\ last.op = "init" => RotorVariantsDerived(last.ret)
    /\ [][FlagsIndependent]_vars

\* The flag of the derived Jensen_rotor has been set back on: the copy and the
\* original are two instances, both flagged now, next to an unflagged model
C5_Witness ==
    /\ last.op = "setflag"
    /\ flm_partial = {"Jensen"}
    /\ \E b \in DOMAIN books :
          LET wm == Mapping(b, "wake_models")
          IN  /\ {"Jensen", "Jensen_rotor", "Frandsen"} \subseteq DOMAIN wm
              /\ "Frandsen_rotor" \notin DOMAIN wm
              /\ wm["Jensen_rotor"] # wm["Jensen"]
              /\ objs[wm["Jensen_rotor"]].partial_wakes = TRUE
              /\ objs[wm["Jensen"]].partial_wakes = TRUE

----------------------------------------------------------------------------
(* C6 *)

\* C6: reducing the catalog reduce has just returned, against the same turbines,
\* succeeds and gives filtered mappings with the same key sets.
C6_ReduceIdempotent ==
    (last.op = "reduce" /\ last.ret # 0) =>
        \E R \in {reduce(Heap, last.ret, wind_farm)} :
            /\ R.err = NoErr
            /\ R.ret # 0
            /\ \A i \in DOMAIN mtyps :
                  DOMAIN MappingIn(R.H.dicts, R.H.books, R.ret, mtyps[i])
                      = DOMAIN Mapping(last.ret, mtyps[i])

\* A reduced catalog has itself been reduced, for a farm of two different turbines
C6_Witness ==
    /\ last.op = "reduce"
    /\ last.ret # 0
    /\ origin[last.self] # 0
    /\ nmut = 0
    /\ Len(wind_farm) = 2
    /\ wind_farm[1] # wind_farm[2]
    /\ \A i \in DOMAIN mtyps :
          DOMAIN Mapping(last.ret, mtyps[i]) = DOMAIN Mapping(last.self, mtyps[i])
    /\ DOMAIN Mapping(last.ret, "wake_models") = {"Jensen", "Jensen_rotor"}

----------------------------------------------------------------------------
(* C8 *)

RingNames ==
    << "ring4", "ring5", "ring6", "ring7", "ring8", "ring9", "ring10", "ring11",
       "ring12", "ring13" >>

GridNames ==
    << "grid4", "grid9", "grid16", "grid25", "grid36", "grid49", "grid64", "grid81",
       "grid100" >>

Decimal ==
    << "1", "2", "3", "4", "5", "6", "7", "8", "9", "10", "11", "12", "13" >>

\* What C8 says of the rotor models apart from the ring models' parameter
RotorModelsAsListed(rm) ==
    /\ DOMAIN rm = Elems(RingNames) \cup Elems(GridNames)
                     \cup {"grid400", "grid10000", "centre", "stencil",
                           "two_rings9", "two_rings13", "three_rings19", "four_rings29"}
    /\ Cardinality(DOMAIN rm) = 27
    /\ Injective(rm)
    /\ \A r \in 4..13 : objs[rm[RingNames[r - 3]]].cls = "RMRing"
    /\ \A g \in 2..10 : /\ objs[rm[GridNames[g - 1]]].cls = "RMGrid"
                        /\ objs[rm[GridNames[g - 1]]].args = "n=" \o Decimal[g]
    /\ objs[rm["grid400"]] = [cls |-> "RMGrid", args |-> "n=20", partial_wakes |-> FALSE]
    /\ objs[rm["grid10000"]] = [cls |-> "RMGrid", args |-> "n=100", partial_wakes |-> FALSE]
    /\ objs[rm["centre"]].cls = "RMCentre"
    /\ objs[rm["stencil"]].cls = "RMStencil"
    /\ \A K \in {"two_rings9", "two_rings13", "three_rings19", "four_rings29"} :
          objs[rm[K]].cls = "RMRings"

\* C8 as stated: the 27 rotor model keys, each with its own instance, the key
\* "ring" + r holding the ring model built for r.
C8_RingKeyIsRingCount ==
    last.op = "init" =>
        LET rm == Mapping(last.ret, "rotor_models")
        IN  /\ RotorModelsAsListed(rm)
            /\ \A r \in 4..13 : objs[rm[RingNames[r - 3]]].args = "n=" \o Decimal[r]

\* C8 amended: the 27 rotor model keys, each with its own instance, the key
\* "ring" + r holding the ring model built with n = r - 1.
C8_RingKeyIsNPlusOne ==
    last.op = "init" =>
        LET rm == Mapping(last.ret, "rotor_models")
        IN  /\ RotorModelsAsListed(rm)
            /\ \A r \in 4..13 : objs[rm[RingNames[r - 3]]].args = "n=" \o Decimal[r - 1]

C8_Witness ==
    /\ last.op = "init"
    /\ {"ring4", "ring13", "grid100", "grid10000"} \subseteq DOMAIN Mapping(last.ret, "rotor_models")
    /\ "ring3" \notin DOMAIN Mapping(last.ret, "rotor_models")
    /\ objs[Mapping(last.ret, "rotor_models")["ring13"]].args = "n=12"

----------------------------------------------------------------------------
(* C9 *)

\* C9: the turbine models of a catalog as built are yaw2yawm, yawm2yaw and
\* zeroOutsideFarm, and ct_P_curves besides exactly when a curve file was given;
\* their classes and arguments are determined by that argument.
C9_CurveModelOnlyWithFile ==
    last.op = "init" =>
        LET tm == Mapping(last.ret, "turbine_models")
            fixed == {"yaw2yawm", "yawm2yaw", "zeroOutsideFarm"}
        IN  /\ DOMAIN tm = IF last.arg = None THEN fixed ELSE fixed \cup {"ct_P_curves"}
            /\ Injective(tm)
            /\ objs[tm["yaw2yawm"]].cls = "Yaw2Yawm"
            /\ objs[tm["yawm2yaw"]].cls = "Yawm2Yaw"
            /\ objs[tm["zeroOutsideFarm"]].cls = "ZeroOutsideFarm"
            /\ last.arg # None =>
                  /\ objs[tm["ct_P_curves"]].cls = "Ws2PCt"
                  /\ objs[tm["ct_P_curves"]].args = "ct_power_curve_file=" \o last.arg

C9_Witness ==
    /\ last.op = "init"
    /\ last.arg = None
    /\ DOMAIN Mapping(last.ret, "turbine_models") = {"yaw2yawm", "yawm2yaw", "zeroOutsideFarm"}

----------------------------------------------------------------------------
(* C10 *)

Unfiltered == {"wake_superp", "turbine_orders"}

\* After the step: a reduced catalog r holds the very mapping objects of its source
\* for the unfiltered kinds and mapping objects of its own for the filtered ones
SharingAfter(r) ==
    LET s == origin'[r]
    IN  /\ \A k \in Unfiltered : books'[r][k] = books'[s][k]
        /\ \A i \in DOMAIN mtyps : books'[r][mtyps[i]] # books'[s][mtyps[i]]

\* A key set or deleted by the caller: in a filtered mapping of reduced catalog r it
\* leaves the source's mapping alone, in an unfiltered mapping it shows in both
MutationSeen(r) ==
    LET s == origin[r]
    IN  /\ \A i \in DOMAIN mtyps :
              MappingIn(dicts', books', r, mtyps[i]) # Mapping(r, mtyps[i]) =>
                  MappingIn(dicts', books', s, mtyps[i]) = Mapping(s, mtyps[i])
        /\ \A k \in Unfiltered :
              /\ MappingIn(dicts', books', r, k) = MappingIn(dicts', books', s, k)
              /\ (MappingIn(dicts', books', r, k) # Mapping(r, k))
                    <=> (MappingIn(dicts', books', s, k) # Mapping(s, k))

\* C10: the filtered mappings of a reduced catalog are mapping objects of its own, so
\* a key added or removed there never changes the source; its wake_superp and
\* turbine_orders are the source's mapping objects, so a key added or removed there
\* is seen through both catalogs.
C10_MappingSharing ==
    [][/\ \A r \in DOMAIN books' : origin'[r] # 0 => SharingAfter(r)
       /\ IsMutation => \A r \in DOMAIN books : origin[r] # 0 => MutationSeen(r)]_vars

\* The caller has added "extra" to wake_superp after a reduce: the reduced catalog
\* and its source both show the key
C10_Witness ==
    /\ last.op = "setitem"
    /\ \E r \in DOMAIN books :
          /\ origin[r] # 0
          /\ "extra" \in DOMAIN Mapping(r, "wake_superp")
          /\ "extra" \in DOMAIN Mapping(origin[r], "wake_superp")

====
